---- MODULE Spec2Model ----
(***************************************************************************)
(* Model of src/src/chart.tsx: the ChartWrapper render coordinator, the    *)
(* Chart component that drives it, the zoom/scroll handlers and the export *)
(* pipeline.  The file holds two variants of the component (lines 1-512    *)
(* and 514-1003); the variable `variant` says which one is running.        *)
(***************************************************************************)
EXTENDS Integers, Sequences, FiniteSets, TLC

VARIABLES
  variant,     \* 1: ChartWrapper/Chart of lines 307-512, 2: of lines 817-1002
  wrappers,    \* ChartWrapper instances: id -> private fields
  cur,         \* the ChartWrapper the component's effect and buttons use (0: not mounted)
  props,       \* props of the last effect run (usePrevious gives them as prevProps)
  crashed,     \* an exception escaped the effect: the component is gone
  heap,        \* JsonGedcomData objects by identity: data id -> indis array
  nreq,        \* number of render requests issued by the component so far
  ncharts,     \* number of createChart calls so far
  promises,    \* chartInfo.animationPromise objects not yet resolved
  rendered,    \* history of chart.render calls
  dom,         \* attributes of #chartSvg / #chart and scroll offset of #svgContainer
  zt,          \* zoomTransform(parent): the __zoom transform stored on #svgContainer
  domZoom,     \* the zoom behaviour whose listeners are bound to #svgContainer
  transition,  \* the scheduled d3 transition on #chartSvg
  lastCall,    \* the most recent renderChart call made by the effect: its
               \* arguments, what it found (animating: the wrapper's flag,
               \* inflight: some animationPromise unresolved) and whether all
               \* calls so far after the first came during an animation (burst)
               \* and without the freeze flag (unfrozen)
  lastRender,  \* the most recent chart.render call
  ngest,       \* number of zoom / scroll gestures so far
  zoomFailed,  \* a zoom button press dereferenced a missing zoomBehavior
  heap0,       \* the JsonGedcomData objects as the application built them
  ex,          \* the export in progress (printChart, downloadPdf/Png/Svg)
  limits       \* how many requests and gestures the explored behaviour may hold

vars == <<variant, wrappers, cur, props, crashed, heap, nreq, ncharts, promises,
          rendered, dom, zt, domZoom, transition, lastCall, lastRender, ngest,
          zoomFailed, heap0, ex, limits>>

----------------------------------------------------------------------------
(* Bounds of the model *)

\* render requests issued by the component (mount included), without gestures
MaxReq == 4
\* render requests and zoom / scroll gestures of the user when both are explored
MaxViewReq == 2
MaxGestures == 2
\* individual records of a dataset
MaxIndis == 3
\* exports started one after the other
MaxExports == 1
\* Render requests of one behaviour when widget calls and animations can fail
MaxFailReq == 3
\* Render requests of one behaviour under the fairness of SpecLive
MaxLiveReq == 3

----------------------------------------------------------------------------
(* Exact rational arithmetic for the JavaScript numbers: <<n, d>> with d > 0 *)

Abs(n) == IF n < 0 THEN -n ELSE n

RECURSIVE Gcd(_, _)
Gcd(a, b) == IF b = 0 THEN a ELSE Gcd(b, a % b)

Rat(n, d) ==
  LET s == IF d < 0 THEN -1 ELSE 1
      g == Gcd(Abs(n), Abs(d))
  IN  <<(s * n) \div g, (s * d) \div g>>

Int2Rat(n) == <<n, 1>>
RatMul(a, b) == Rat(a[1] * b[1], a[2] * b[2])
RatDiv(a, b) == Rat(a[1] * b[2], a[2] * b[1])
RatAdd(a, b) == Rat(a[1] * b[2] + b[1] * a[2], a[2] * b[2])
RatSub(a, b) == Rat(a[1] * b[2] - b[1] * a[2], a[2] * b[2])
RatNeg(a) == <<-a[1], a[2]>>
RatLE(a, b) == a[1] * b[2] <= b[1] * a[2]
RatLT(a, b) == a[1] * b[2] < b[1] * a[2]
RatMin(a, b) == IF RatLE(a, b) THEN a ELSE b
RatMax(a, b) == IF RatLE(a, b) THEN b ELSE a
RatHalf(a) == Rat(a[1], 2 * a[2])

----------------------------------------------------------------------------
(* Datasets: JsonIndi records {id, fams, famc}.  fams is an array of family *)
(* ids, famc a family id with 0 for an absent (falsy) value.                *)

NoFamc == 0

\* [...new Set([...a, ...b])]: a followed by the elements of b not yet seen
RECURSIVE SetUnionArray(_, _)
SetUnionArray(a, b) ==
  IF b = <<>> THEN a
  ELSE LET x == Head(b)
       IN  IF \E i \in 1..Len(a) : a[i] = x
           THEN SetUnionArray(a, Tail(b))
           ELSE SetUnionArray(Append(a, x), Tail(b))

\* uniqueIndis.has(id) / position of the record stored under id
FirstIndex(arr, upto, id) ==
  LET S == {j \in 1..upto : arr[j].id = id}
  IN  IF S = {} THEN 0 ELSE CHOOSE j \in S : \A k \in S : j <= k

\* Body of the else branch, lines 345-347: merge the duplicate into the
\* record already stored in the map (the caller's own object).
MergeDuplicate(existing, indi) ==
  [existing EXCEPT !.fams = SetUnionArray(existing.fams, indi.fams),
                   !.famc = IF indi.famc # NoFamc THEN indi.famc ELSE existing.famc]

\* The forEach of variant 1 (lines 339-350) from element i on.  arr is the
\* caller's indis array, whose records the loop may write; keys are the
\* positions of the records held by the map, in insertion order.
RECURSIVE UniqueLoop1(_, _, _)
UniqueLoop1(arr, keys, i) ==
  IF i > Len(arr) THEN [arr |-> arr, keys |-> keys]
  ELSE LET j == FirstIndex(arr, i - 1, arr[i].id)
       IN  IF j = 0
           THEN UniqueLoop1(arr, Append(keys, i), i + 1)
           ELSE UniqueLoop1([arr EXCEPT ![j] = MergeDuplicate(arr[j], arr[i])],
                            keys, i + 1)

\* The forEach of variant 2 (lines 849-854): first occurrence only.
RECURSIVE UniqueLoop2(_, _, _)
UniqueLoop2(arr, keys, i) ==
  IF i > Len(arr) THEN [arr |-> arr, keys |-> keys]
  ELSE IF FirstIndex(arr, i - 1, arr[i].id) = 0
       THEN UniqueLoop2(arr, Append(keys, i), i + 1)
       ELSE UniqueLoop2(arr, keys, i + 1)

\* uniqueIndis / filteredData of renderChart: the array handed to the widget
\* (indis) and the caller's array after the call (arr).
uniqueIndis(v, arr) ==
  LET r == IF v = 1 THEN UniqueLoop1(arr, <<>>, 1) ELSE UniqueLoop2(arr, <<>>, 1)
  IN  [indis |-> [k \in 1..Len(r.keys) |-> r.arr[r.keys[k]]], arr |-> r.arr]

----------------------------------------------------------------------------
(* Values of the coordinator *)

ChartTypes == {"hourglass", "fancy"}
ColorChoices == {"colored", "white"}
HideIdsChoices == {"show"}
HideSexChoices == {"show"}
DataIds == {1, 2}
Selections == {"I1", "I2"}

\* The JsonGedcomData objects the application can pass: data 1 has no
\* duplicate individual, data 2 lists individual "a" twice.
InitialHeap ==
  [d \in DataIds |->
     IF d = 1
     THEN <<[id |-> "a", fams |-> <<1>>, famc |-> NoFamc] >>
     ELSE <<[id |-> "a", fams |-> <<1>>, famc |-> 1],
            [id |-> "b", fams |-> <<>>, famc |-> 1],
            [id |-> "a", fams |-> <<2>>, famc |-> 2] >>]

\* ChartProps (lines 220-229)
PropsChoices ==
  [chartType : ChartTypes, colors : ColorChoices, hideIds : HideIdsChoices,
   hideSex : HideSexChoices, data : DataIds, selection : Selections,
   freezeAnimation : BOOLEAN]

\* Props the component is mounted with
MountChoices ==
  {q \in PropsChoices :
     q.colors = "colored" /\ q.hideIds = "show" /\ q.hideSex = "show"
     /\ q.selection = "I1" /\ ~q.freezeAnimation}

\* Fields of the props that differ between one render of the component and
\* the next: the application changes one setting at a time, or none.
ChangeSets ==
  {{}, {"chartType"}, {"colors"}, {"data"}, {"selection"}, {"freezeAnimation"}}

\* req is the arrival number of the request
WithReq(p, n) ==
  [req |-> n, chartType |-> p.chartType, colors |-> p.colors, hideIds |-> p.hideIds,
   hideSex |-> p.hideSex, data |-> p.data, selection |-> p.selection,
   freezeAnimation |-> p.freezeAnimation]

Differs(p, q) ==
  {f \in {"chartType", "colors", "hideIds", "hideSex", "data", "selection",
          "freezeAnimation"} : p[f] # q[f]}

\* rerenderProps / prevProps before the first assignment (undefined)
NoProps ==
  [req |-> 0, chartType |-> "hourglass", colors |-> "colored", hideIds |-> "show",
   hideSex |-> "show", data |-> 1, selection |-> "I1", freezeAnimation |-> FALSE]

\* The ChartInfo the widget's render reports for a chart type and a start
\* individual: a chart much smaller than the viewport, one larger than it
\* on both axes, and one larger on one axis.
LayoutOf(chartType, selection) ==
  IF chartType = "fancy"
  THEN [size |-> <<500, 200>>, origin |-> <<250, 100>>]
  ELSE IF selection = "I1"
  THEN [size |-> <<100, 60>>, origin |-> <<50, 30>>]
  ELSE [size |-> <<800, 600>>, origin |-> <<400, 100>>]

NoChartInfo == [size |-> <<0, 0>>, origin |-> <<0, 0>>]

\* parent.clientWidth, parent.clientHeight of #svgContainer
ClientWidth == 400
ClientHeight == 300

\* this.chart before the first createChart (undefined)
NoChart == [id |-> 0, hasSetData |-> FALSE, chartType |-> "hourglass", json |-> <<>>]

\* this.zoomBehavior before the first render (undefined)
NoZoomBehavior ==
  [installed |-> FALSE, extent |-> <<Int2Rat(0), Int2Rat(0)>>, size |-> <<0, 0>>]

\* new ChartWrapper(): field initialisers of lines 308-313.  The two
\* optional fields start undefined; !!undefined is false.
NewChartWrapper ==
  [chart |-> NoChart, zoomBehavior |-> NoZoomBehavior, animating |-> FALSE,
   rerenderRequired |-> FALSE, rerenderProps |-> NoProps,
   rerenderResetPosition |-> FALSE]

\* an attribute that is not set on the element
NoAttr == <<>>

NoTransition ==
  [active |-> FALSE, transform |-> NoAttr, width |-> NoAttr,
   height |-> NoAttr, scroll |-> FALSE, scrollLeft |-> Int2Rat(0),
   scrollTop |-> Int2Rat(0)]

\* <svg id="chartSvg"><g id="chart" /></svg> as the component returns it
InitialDom ==
  [width |-> NoAttr, height |-> NoAttr, transform |-> NoAttr,
   chartTransform |-> NoAttr, content |-> 0,
   scrollLeft |-> Int2Rat(0), scrollTop |-> Int2Rat(0)]

\* zoomIdentity: the transform of an element that was never zoomed
ZoomIdentity == [k |-> Int2Rat(1), x |-> Int2Rat(0), y |-> Int2Rat(0)]

NoRender ==
  [req |-> 0, w |-> 0, chart |-> 0, selection |-> "I1", freezeAnimation |-> FALSE,
   initialRender |-> FALSE, resetPosition |-> FALSE, info |-> NoChartInfo,
   scale |-> Int2Rat(1)]

----------------------------------------------------------------------------
(* calculateScaleExtent, lines 275-286 *)

\* Scale bounds taken relative to the current zoom scale
calculateScaleExtentRelative(clientW, clientH, scale, chartInfo) ==
  <<RatMul(scale, RatMin(Rat(clientW, chartInfo.size[1]),
                         Rat(clientH, chartInfo.size[2]))),
    Int2Rat(2)>>

calculateScaleExtent(clientW, clientH, scale, chartInfo) ==
  LET minScale == RatMin(Rat(clientW, chartInfo.size[1]),
                         Rat(clientH, chartInfo.size[2]))
      maxScale == Int2Rat(2)
  IN  <<minScale, maxScale>>

\* max([0, (parent.clientWidth - size * scale) / 2]) of lines 424-431, 49-50
CenterOffset(client, size, scale) ==
  RatMax(Int2Rat(0), RatHalf(RatSub(Int2Rat(client), RatMul(Int2Rat(size), scale))))

\* -dx, -dy of lines 422-423, 439-440
ScrollTarget(client, origin, scale) ==
  RatNeg(RatSub(RatHalf(Int2Rat(client)), RatMul(Int2Rat(origin), scale)))

----------------------------------------------------------------------------
(* The d3-zoom behaviour and the handlers zoomed / scrolled, lines 42-68 *)

\* How much to zoom when using the +/- buttons (line 35: 1.3)
ZOOM_FACTOR == Rat(13, 10)

\* Scales and translations a wheel or drag gesture can ask for
ScaleChoices == {Rat(1, 2), Int2Rat(3)}
TranslateChoices == {<<-120, -40>>}
ScrollChoices == {<<60, 20>>}

\* d3-zoom keeps the scale inside scaleExtent:
\* max(extent[0], min(extent[1], k))
ClampScale(k, extent) == RatMax(extent[1], RatMin(extent[2], k))

\* zoomed(size, event), lines 42-59
zoomed(size, transform, d) ==
  [d EXCEPT
     !.width = RatMul(Int2Rat(size[1]), transform.k),
     !.height = RatMul(Int2Rat(size[2]), transform.k),
     !.transform = <<CenterOffset(ClientWidth, size[1], transform.k),
                     CenterOffset(ClientHeight, size[2], transform.k)>>,
     !.chartTransform = transform.k,
     !.scrollLeft = RatNeg(transform.x),
     !.scrollTop = RatNeg(transform.y)]

\* A scroll handler that passes the viewport centre to translateTo without
\* dividing it by the scale
scrolledUnscaled(d, t) ==
  LET x == RatAdd(d.scrollLeft, RatHalf(Int2Rat(ClientWidth)))
      y == RatAdd(d.scrollTop, RatHalf(Int2Rat(ClientHeight)))
  IN  [k |-> t.k,
       x |-> RatSub(RatHalf(Int2Rat(ClientWidth)), RatMul(t.k, x)),
       y |-> RatSub(RatHalf(Int2Rat(ClientHeight)), RatMul(t.k, y))]

\* scrolled(), lines 62-68: zoom().translateTo(x / scale, y / scale) centres
\* the point (x / scale, y / scale) in the viewport at the current scale
scrolled(d, t) ==
  LET x == RatAdd(d.scrollLeft, RatHalf(Int2Rat(ClientWidth)))
      y == RatAdd(d.scrollTop, RatHalf(Int2Rat(ClientHeight)))
      scale == t.k
      px == RatDiv(x, scale)
      py == RatDiv(y, scale)
  IN  [k |-> t.k,
       x |-> RatSub(RatHalf(Int2Rat(ClientWidth)), RatMul(t.k, px)),
       y |-> RatSub(RatHalf(Int2Rat(ClientHeight)), RatMul(t.k, py))]

----------------------------------------------------------------------------
(* ChartWrapper.renderChart, lines 324-460 (variant 1) and 834-950 (variant 2) *)

\* The part of the program state renderChart reads and writes
CurState ==
  [wrappers |-> wrappers, heap |-> heap, ncharts |-> ncharts, promises |-> promises,
   rendered |-> rendered, dom |-> dom, domZoom |-> domZoom,
   transition |-> transition, lastRender |-> lastRender, threw |-> FALSE]

\* Whether the handle createChart returns for a chart type exposes setData.
\* Variant 1 probes for it (line 368); variant 2 calls it through the
\* ChartHandle type (line 871).
SupportsSetData(v, chartType) == v = 2 \/ chartType # "fancy"

\* Lines 326-331 / 836-841: park the request in the pending slot
DeferRequest(W, p, args) ==
  [W EXCEPT !.rerenderRequired = TRUE,
            !.rerenderProps = p,
            !.rerenderResetPosition = args.resetPosition]

\* Guard of lines 326 / 836
MustDefer(W, p, args) == ~args.initialRender /\ W.animating

\* A coordinator without the freeze check of lines 334-336
IsFrozenNever(W, p, args) == FALSE

\* Guard of lines 334 / 844
IsFrozen(W, p, args) == ~args.initialRender /\ p.freezeAnimation

\* Lines 353-384 / 857-872: which branch builds a new handle
MustCreate(v, W, args) ==
  \/ args.initialRender
  \/ v = 1 /\ W.chart.id # 0 /\ ~W.chart.hasSetData

\* A non-initial render on a wrapper without a handle dereferences
\* undefined: this.chart!.render (line 385) or this.chart!.setData (line 871)
RenderThrows(v, W, args) == ~args.initialRender /\ W.chart.id = 0

\* Lines 432-446 / 920-934 on a non-initial render: the delayed transition
NewTransition(args, info, scale) ==
  [active |-> TRUE,
   transform |-> <<CenterOffset(ClientWidth, info.size[1], scale),
                   CenterOffset(ClientHeight, info.size[2], scale)>>,
   width |-> RatMul(Int2Rat(info.size[1]), scale),
   height |-> RatMul(Int2Rat(info.size[2]), scale),
   scroll |-> args.resetPosition,
   scrollLeft |-> ScrollTarget(ClientWidth, info.origin[1], scale),
   scrollTop |-> ScrollTarget(ClientHeight, info.origin[2], scale)]

\* An initial render that centres the origin whatever resetPosition says
InitialDomWriteAlwaysReset(d, args, info, scale) ==
  [d EXCEPT
     !.transform = <<CenterOffset(ClientWidth, info.size[1], scale),
                     CenterOffset(ClientHeight, info.size[2], scale)>>,
     !.width = RatMul(Int2Rat(info.size[1]), scale),
     !.height = RatMul(Int2Rat(info.size[2]), scale),
     !.scrollLeft = ScrollTarget(ClientWidth, info.origin[1], scale),
     !.scrollTop = ScrollTarget(ClientHeight, info.origin[2], scale)]

\* Lines 433-441 / 921-929 on an initial render: attributes and scroll
\* offset are written synchronously
InitialDomWrite(d, args, info, scale) ==
  [d EXCEPT
     !.transform = <<CenterOffset(ClientWidth, info.size[1], scale),
                     CenterOffset(ClientHeight, info.size[2], scale)>>,
     !.width = RatMul(Int2Rat(info.size[1]), scale),
     !.height = RatMul(Int2Rat(info.size[2]), scale),
     !.scrollLeft = IF args.resetPosition
                    THEN ScrollTarget(ClientWidth, info.origin[1], scale) ELSE @,
     !.scrollTop = IF args.resetPosition
                   THEN ScrollTarget(ClientHeight, info.origin[2], scale) ELSE @]

\* Lines 338-459 / 848-949: the request is applied
ApplyRender(v, st, w, p, args, scale) ==
  LET W == st.wrappers[w]
      u == uniqueIndis(v, st.heap[p.data])
      heap1 == [st.heap EXCEPT ![p.data] = u.arr]
      create == MustCreate(v, W, args)
      chart1 == IF create
                THEN [id |-> st.ncharts + 1,
                      hasSetData |-> SupportsSetData(v, p.chartType),
                      chartType |-> p.chartType, json |-> u.indis]
                ELSE [W.chart EXCEPT !.json = u.indis]
      info == LayoutOf(chart1.chartType, p.selection)
      zb == [installed |-> TRUE,
             extent |-> calculateScaleExtent(ClientWidth, ClientHeight, scale, info),
             size |-> info.size]
      call == [req |-> p.req, w |-> w, chart |-> chart1.id,
               selection |-> p.selection, freezeAnimation |-> p.freezeAnimation,
               initialRender |-> args.initialRender,
               resetPosition |-> args.resetPosition,
               info |-> info, scale |-> scale]
  IN  IF RenderThrows(v, W, args)
      THEN [st EXCEPT !.heap = heap1, !.threw = TRUE]
      ELSE [st EXCEPT
              !.heap = heap1,
              !.ncharts = IF create THEN @ + 1 ELSE @,
              !.wrappers[w] = [W EXCEPT !.chart = chart1, !.zoomBehavior = zb,
                                        !.animating = TRUE],
              !.rendered = Append(@, p.req),
              !.lastRender = call,
              !.promises = @ \cup {[id |-> Len(st.rendered) + 1, w |-> w]},
              !.domZoom = zb,
              !.dom = IF args.initialRender
                      THEN InitialDomWrite([@ EXCEPT !.content = chart1.id],
                                           args, info, scale)
                      ELSE [@ EXCEPT !.content = chart1.id],
              !.transition = IF args.initialRender THEN NoTransition
                             ELSE NewTransition(args, info, scale)]

renderChart(v, st, w, p, args, scale) ==
  LET W == st.wrappers[w]
  IN  IF MustDefer(W, p, args)
      THEN [st EXCEPT !.wrappers[w] = DeferRequest(W, p, args)]
      ELSE IF IsFrozen(W, p, args)
      THEN st
      ELSE ApplyRender(v, st, w, p, args, scale)

\* A continuation that replays the stored request without clearing animating
AnimationContinuationStaysBusy(v, st, w, scale) ==
  LET W == st.wrappers[w]
  IN  IF W.rerenderRequired
      THEN renderChart(v, [st EXCEPT !.wrappers[w].rerenderRequired = FALSE],
                       w, W.rerenderProps,
                       [initialRender |-> FALSE,
                        resetPosition |-> W.rerenderResetPosition],
                       scale)
      ELSE st

\* A continuation that replays the stored request without clearing the slot
AnimationContinuationKeepsSlot(v, st, w, scale) ==
  LET W == st.wrappers[w]
      st1 == [st EXCEPT !.wrappers[w].animating = FALSE]
  IN  IF W.rerenderRequired
      THEN renderChart(v, st1, w, W.rerenderProps,
                       [initialRender |-> FALSE,
                        resetPosition |-> W.rerenderResetPosition],
                       scale)
      ELSE st1

\* The continuation of chartInfo.animationPromise, lines 450-459 / 938-949
AnimationContinuation(v, st, w, scale) ==
  LET W == st.wrappers[w]
      st1 == [st EXCEPT !.wrappers[w].animating = FALSE]
  IN  IF W.rerenderRequired
      THEN renderChart(v, [st1 EXCEPT !.wrappers[w].rerenderRequired = FALSE],
                       w, W.rerenderProps,
                       [initialRender |-> FALSE,
                        resetPosition |-> W.rerenderResetPosition],
                       scale)
      ELSE st1

\* Where a widget call of an applied request can throw: createChart or
\* setData (lines 355-383), or chart.render (lines 385-388)
ThrowPoints == {"construct", "render"}

\* Lines 338-388 / 848-876 when the widget throws at the point `at`: the
\* statements before it have run, the exception leaves renderChart before
\* line 447, so neither the zoom handler nor the animating flag is written
ApplyRenderThrowing(v, st, w, p, args, at) ==
  LET W == st.wrappers[w]
      u == uniqueIndis(v, st.heap[p.data])
      heap1 == [st.heap EXCEPT ![p.data] = u.arr]
      create == MustCreate(v, W, args)
      chart1 == IF create
                THEN [id |-> st.ncharts + 1,
                      hasSetData |-> SupportsSetData(v, p.chartType),
                      chartType |-> p.chartType, json |-> u.indis]
                ELSE [W.chart EXCEPT !.json = u.indis]
      cleared == [st EXCEPT !.heap = heap1, !.threw = TRUE,
                            !.dom.content = IF args.initialRender THEN 0 ELSE @]
  IN  IF RenderThrows(v, W, args) \/ at = "construct"
      THEN cleared
      ELSE [cleared EXCEPT !.ncharts = IF create THEN @ + 1 ELSE @,
                           !.wrappers[w].chart = chart1]

\* renderChart when a widget call of the applied branch throws
renderChartThrowing(v, st, w, p, args, at) ==
  LET W == st.wrappers[w]
  IN  IF MustDefer(W, p, args)
      THEN [st EXCEPT !.wrappers[w] = DeferRequest(W, p, args)]
      ELSE IF IsFrozen(W, p, args)
      THEN st
      ELSE ApplyRenderThrowing(v, st, w, p, args, at)

----------------------------------------------------------------------------
(* The Chart component, lines 463-512 (variant 1) and 953-1002 (variant 2) *)

\* An effect that does not look at the chart type when it decides initialRender
EffectArgsKeepsHandle(prev, p) ==
  [initialRender |-> \/ p.colors # prev.colors
                     \/ p.hideIds # prev.hideIds
                     \/ p.hideSex # prev.hideSex,
   resetPosition |-> \/ p.chartType # prev.chartType
                     \/ p.data # prev.data
                     \/ p.selection # prev.selection]

\* Lines 470-478 / 960-968
EffectArgs(prev, p) ==
  [initialRender |-> \/ p.chartType # prev.chartType
                     \/ p.colors # prev.colors
                     \/ p.hideIds # prev.hideIds
                     \/ p.hideSex # prev.hideSex,
   resetPosition |-> \/ p.chartType # prev.chartType
                     \/ p.data # prev.data
                     \/ p.selection # prev.selection]

\* Lines 484-487 / 974-977
MountArgs == [initialRender |-> TRUE, resetPosition |-> TRUE]

\* Line 464: useRef keeps one wrapper for the mounted component.
\* Line 954: the function body builds a new wrapper on every render.
WrapperForRender(v, c, ws) == IF v = 1 /\ c # 0 THEN c ELSE Len(ws) + 1

SetState(st) ==
  /\ wrappers' = st.wrappers
  /\ heap' = st.heap
  /\ ncharts' = st.ncharts
  /\ promises' = st.promises
  /\ rendered' = st.rendered
  /\ dom' = st.dom
  /\ domZoom' = st.domZoom
  /\ transition' = st.transition
  /\ lastRender' = st.lastRender

\* One render of the component with props q, and its effect
RunEffect(q, args) ==
  LET w == WrapperForRender(variant, cur, wrappers)
      ws == IF w > Len(wrappers) THEN Append(wrappers, NewChartWrapper) ELSE wrappers
      p == WithReq(q, nreq + 1)
      st == renderChart(variant, [CurState EXCEPT !.wrappers = ws], w, p, args, zt.k)
  IN  /\ SetState(st)
      /\ crashed' = st.threw
      /\ cur' = w
      /\ props' = p
      /\ nreq' = nreq + 1
      /\ lastCall' = [n |-> nreq + 1, w |-> w, props |-> p, args |-> args,
                       animating |-> ws[w].animating,
                       inflight |-> promises # {},
                       burst |-> nreq = 0 \/ (lastCall.burst /\ promises # {}),
                       unfrozen |-> lastCall.unfrozen
                                    /\ (nreq = 0 \/ ~p.freezeAnimation)]
      /\ UNCHANGED <<heap0, ex, variant, zt, ngest, zoomFailed, limits>>

\* First render of the component and its effect (prevProps is undefined)
Mount ==
  /\ cur = 0 /\ ~crashed /\ nreq < limits.req
  /\ \E q \in MountChoices : RunEffect(q, MountArgs)

\* A later render of the component with new props and its effect
Update ==
  /\ cur # 0 /\ ~crashed /\ nreq < limits.req
  /\ \E q \in PropsChoices :
       /\ Differs(props, q) \in ChangeSets
       /\ RunEffect(q, EffectArgs(props, q))

\* An animationPromise resolves and its continuation runs
AnimationDone ==
  \E pr \in promises :
    LET st == AnimationContinuation(
                variant, [CurState EXCEPT !.promises = @ \ {pr}], pr.w, zt.k)
    IN  /\ SetState(st)
        /\ UNCHANGED <<heap0, ex, variant, cur, props, crashed, nreq, zt, lastCall, ngest,
                       zoomFailed, heap0, ex, limits>>

\* The delayed transition on #chartSvg runs to its end (lines 432-446)
TransitionEnd ==
  /\ transition.active
  /\ dom' = [dom EXCEPT
               !.transform = transition.transform,
               !.width = transition.width,
               !.height = transition.height,
               !.scrollLeft = IF transition.scroll THEN transition.scrollLeft ELSE @,
               !.scrollTop = IF transition.scroll THEN transition.scrollTop ELSE @]
  /\ transition' = NoTransition
  /\ UNCHANGED <<heap0, ex, variant, wrappers, cur, props, crashed, heap, nreq, ncharts,
                 promises, rendered, zt, domZoom, lastCall, lastRender, ngest,
                 zoomFailed, heap0, ex, limits>>

\* A wheel or drag gesture on #svgContainer: the bound behaviour updates the
\* transform and calls zoomed (line 401)
ZoomGesture ==
  /\ domZoom.installed /\ ngest < limits.gest
  /\ \E k \in ScaleChoices, xy \in TranslateChoices :
       LET t == [k |-> ClampScale(k, domZoom.extent),
                 x |-> Int2Rat(xy[1]), y |-> Int2Rat(xy[2])]
       IN  /\ zt' = t
           /\ dom' = zoomed(domZoom.size, t, dom)
  /\ ngest' = ngest + 1
  /\ UNCHANGED <<heap0, ex, variant, wrappers, cur, props, crashed, heap, nreq, ncharts,
                 promises, rendered, domZoom, transition, lastCall, lastRender,
                 zoomFailed, heap0, ex, limits>>

\* A zoom button is pressed: ChartWrapper.zoom(factor), lines 315-322, on the
\* wrapper of the last render of the component
ZoomButton ==
  /\ cur # 0 /\ ~crashed /\ ngest < limits.gest
  /\ \E factor \in {ZOOM_FACTOR, RatDiv(Int2Rat(1), ZOOM_FACTOR)},
        xy \in TranslateChoices :
       LET zb == wrappers[cur].zoomBehavior
           t == [k |-> ClampScale(RatMul(zt.k, factor), zb.extent),
                 x |-> Int2Rat(xy[1]), y |-> Int2Rat(xy[2])]
       IN  IF zb.installed
           THEN /\ zt' = t
                /\ dom' = zoomed(zb.size, t, dom)
                /\ UNCHANGED zoomFailed
           ELSE /\ zoomFailed' = TRUE
                /\ UNCHANGED <<zt, dom>>
  /\ ngest' = ngest + 1
  /\ UNCHANGED <<heap0, ex, variant, wrappers, cur, props, crashed, heap, nreq, ncharts,
                 promises, rendered, domZoom, transition, lastCall, lastRender, limits>>

\* The user scrolls #svgContainer: the scroll listener of line 403 runs scrolled
UserScroll ==
  /\ domZoom.installed /\ ngest < limits.gest
  /\ \E s \in ScrollChoices :
       LET d == [dom EXCEPT !.scrollLeft = Int2Rat(s[1]), !.scrollTop = Int2Rat(s[2])]
       IN  /\ dom' = d
           /\ zt' = scrolled(d, zt)
  /\ ngest' = ngest + 1
  /\ UNCHANGED <<heap0, ex, variant, wrappers, cur, props, crashed, heap, nreq, ncharts,
                 promises, rendered, domZoom, transition, lastCall, lastRender,
                 zoomFailed, heap0, ex, limits>>

\* A render of the component whose renderChart call reaches a widget call
\* that throws: the exception leaves the effect
UpdateWidgetThrows ==
  /\ cur # 0 /\ ~crashed /\ nreq < limits.req
  /\ \E q \in PropsChoices, at \in ThrowPoints :
       LET args == EffectArgs(props, q)
           w == WrapperForRender(variant, cur, wrappers)
           ws == IF w > Len(wrappers) THEN Append(wrappers, NewChartWrapper)
                 ELSE wrappers
           p == WithReq(q, nreq + 1)
           st == renderChartThrowing(variant, [CurState EXCEPT !.wrappers = ws],
                                     w, p, args, at)
       IN  /\ Differs(props, q) \in ChangeSets
           /\ ~MustDefer(ws[w], p, args) /\ ~IsFrozen(ws[w], p, args)
           /\ SetState(st)
           /\ crashed' = st.threw
           /\ cur' = w
           /\ props' = p
           /\ nreq' = nreq + 1
           /\ lastCall' = [n |-> nreq + 1, w |-> w, props |-> p, args |-> args,
                           animating |-> ws[w].animating,
                           inflight |-> promises # {},
                           burst |-> lastCall.burst /\ promises # {},
                           unfrozen |-> lastCall.unfrozen /\ ~p.freezeAnimation]
  /\ UNCHANGED <<heap0, ex, variant, zt, ngest, zoomFailed, limits>>

\* An animationPromise resolves and the replay of the pending request reaches
\* a widget call that throws: the exception rejects the promise returned by
\* then(), nothing observes it
ReplayWidgetThrows ==
  \E pr \in promises, at \in ThrowPoints :
    LET W == wrappers[pr.w]
        st1 == [CurState EXCEPT !.promises = @ \ {pr},
                                !.wrappers[pr.w].animating = FALSE,
                                !.wrappers[pr.w].rerenderRequired = FALSE]
        args == [initialRender |-> FALSE, resetPosition |-> W.rerenderResetPosition]
        st == renderChartThrowing(variant, st1, pr.w, W.rerenderProps, args, at)
    IN  /\ W.rerenderRequired
        /\ ~IsFrozen(st1.wrappers[pr.w], W.rerenderProps, args)
        /\ SetState(st)
        /\ UNCHANGED <<heap0, ex, variant, cur, props, crashed, nreq, zt, lastCall,
                       ngest, zoomFailed, limits>>

\* An animationPromise rejects: then() of line 449 was given no rejection
\* handler, so the continuation does not run
AnimationRejects ==
  /\ \E pr \in promises : promises' = promises \ {pr}
  /\ UNCHANGED <<heap0, ex, variant, wrappers, cur, props, crashed, heap, nreq,
                 ncharts, rendered, dom, zt, domZoom, transition, lastCall,
                 lastRender, ngest, zoomFailed, limits>>

----------------------------------------------------------------------------
(* The export pipeline, lines 70-209 *)

\* href.baseVal of an <image>: a URL, a data URL, or empty
NoHref == [data |-> FALSE, src |-> ""]
Url(name) == [data |-> FALSE, src |-> name]

\* The <image> elements the rendered chart can hold
ImageLists ==
  { <<>>,
    <<Url("u1")>>,
    <<Url("u1"), NoHref>>,
    <<Url("u1"), Url("u2"), Url("u3")>> }

ExportKinds == {"svg", "png", "pdf", "print"}

NoExport ==
  [pc |-> "idle", kind |-> "svg", live |-> <<>>, images |-> <<>>,
   svg |-> [width |-> Int2Rat(0), height |-> Int2Rat(0), transform |-> NoAttr,
            chartTransform |-> NoAttr],
   saved |-> <<>>, printed |-> 0, started |-> 0, failedIn |-> ""]

\* Number(svg.getAttribute(name)): Number(null) is 0
Number(attr) == IF attr = NoAttr THEN Int2Rat(0) ELSE attr

\* getStrippedSvg, lines 143-157: the clone of #chartSvg
getStrippedSvg(d, t) ==
  LET scale == t.k
  IN  [width |-> RatDiv(Number(d.width), scale),
       height |-> RatDiv(Number(d.height), scale),
       transform |-> NoAttr,
       chartTransform |-> NoAttr]

\* inlineImage up to its first await, lines 80-85
StartInline(href) ==
  [orig |-> href, href |-> href,
   st |-> IF href.src = "" THEN "skipped" ELSE "fetching"]

\* An inlineImage without the try/catch of lines 84-91: the failure rejects
OnImageFailureRethrown(img) == [img EXCEPT !.st = "rejected"]

\* The catch block of inlineImage, lines 89-91: the failure is logged and
\* the promise of this image resolves with the reference untouched
OnImageFailure(img) == [img EXCEPT !.st = "failed"]

\* Line 88: image.href.baseVal = dataUrl
OnImageLoaded(img) == [img EXCEPT !.href = [data |-> TRUE, src |-> img.orig.src],
                                  !.st = "done"]

\* Promise.all over the per-image promises, line 101
AllSettled(images) ==
  \A i \in 1..Len(images) : images[i].st \in {"done", "failed", "skipped"}
AnyRejected(images) ==
  \E i \in 1..Len(images) : images[i].st = "rejected"

coordVars ==
  <<variant, wrappers, cur, props, crashed, heap, nreq, ncharts, promises,
    rendered, dom, zt, domZoom, transition, lastCall, lastRender, ngest,
    zoomFailed, heap0, limits>>

\* An export whose getStrippedSvg edits #chartSvg itself instead of a clone
ExportStartOnLiveNode ==
  /\ ex.pc = "idle" /\ cur # 0 /\ ex.started < MaxExports
  /\ \E kind \in ExportKinds, imgs \in ImageLists :
       ex' = [ex EXCEPT !.pc = "inlining", !.kind = kind, !.live = imgs,
                        !.images = [i \in 1..Len(imgs) |-> StartInline(imgs[i])],
                        !.svg = getStrippedSvg(dom, zt),
                        !.started = @ + 1]
  /\ dom' = [dom EXCEPT !.width = getStrippedSvg(dom, zt).width,
                        !.height = getStrippedSvg(dom, zt).height,
                        !.transform = NoAttr,
                        !.chartTransform = NoAttr]
  /\ UNCHANGED <<variant, wrappers, cur, props, crashed, heap, nreq, ncharts,
                 promises, rendered, zt, domZoom, transition, lastCall,
                 lastRender, ngest, zoomFailed, heap0, limits>>

\* An export entry point is called: getStrippedSvg and the synchronous part
\* of inlineImages (lines 163-165, 99-101)
ExportStart ==
  /\ ex.pc = "idle" /\ cur # 0 /\ ex.started < MaxExports
  /\ \E kind \in ExportKinds, imgs \in ImageLists :
       ex' = [ex EXCEPT !.pc = "inlining", !.kind = kind, !.live = imgs,
                        !.images = [i \in 1..Len(imgs) |-> StartInline(imgs[i])],
                        !.svg = getStrippedSvg(dom, zt),
                        !.started = @ + 1]
  /\ UNCHANGED coordVars

\* fetch(href) settles, line 85
FetchSettles ==
  /\ ex.pc = "inlining"
  /\ \E i \in 1..Len(ex.images), ok \in BOOLEAN :
       /\ ex.images[i].st = "fetching"
       /\ ex' = [ex EXCEPT !.images[i] =
                   IF ok THEN [@ EXCEPT !.st = "reading"] ELSE OnImageFailure(@)]
  /\ UNCHANGED coordVars

\* response.blob() settles, line 86
BlobSettles ==
  /\ ex.pc = "inlining"
  /\ \E i \in 1..Len(ex.images), ok \in BOOLEAN :
       /\ ex.images[i].st = "reading"
       /\ ex' = [ex EXCEPT !.images[i] =
                   IF ok THEN [@ EXCEPT !.st = "converting"] ELSE OnImageFailure(@)]
  /\ UNCHANGED coordVars

\* The FileReader of loadAsDataUrl fires load or error, lines 71-77, 87-88.
\* Only onload is handled: after an error the promise never settles.
ReaderSettles ==
  /\ ex.pc = "inlining"
  /\ \E i \in 1..Len(ex.images), ok \in BOOLEAN :
       /\ ex.images[i].st = "converting"
       /\ ex' = [ex EXCEPT !.images[i] =
                   IF ok THEN OnImageLoaded(@) ELSE [@ EXCEPT !.st = "stuck"]]
  /\ UNCHANGED coordVars

\* Promise.all settles and the snapshot is serialized, lines 101, 165-166
InlineImagesDone ==
  /\ ex.pc = "inlining"
  /\ AnyRejected(ex.images) \/ AllSettled(ex.images)
  /\ ex' = IF AnyRejected(ex.images)
           THEN [ex EXCEPT !.pc = "rejected", !.failedIn = "inlineImages"]
           ELSE [ex EXCEPT !.pc = "serialized"]
  /\ UNCHANGED coordVars

\* downloadSvg, lines 205-209
SaveSvg ==
  /\ ex.pc = "serialized" /\ ex.kind = "svg"
  /\ ex' = [ex EXCEPT !.pc = "idle", !.saved = Append(@, "chart.svg")]
  /\ UNCHANGED coordVars

\* printChart, lines 170-182
printChart ==
  /\ ex.pc = "serialized" /\ ex.kind = "print"
  /\ ex' = [ex EXCEPT !.pc = "idle", !.printed = @ + 1]
  /\ UNCHANGED coordVars

\* loadImage, lines 105-111, 188-189: the image fires load or error.  Only
\* load is handled: after an error the promise never settles.
ImageLoads ==
  /\ ex.pc = "serialized" /\ ex.kind \in {"png", "pdf"}
  /\ \E ok \in BOOLEAN :
       ex' = [ex EXCEPT !.pc = IF ok THEN "encoding" ELSE "stuck"]
  /\ UNCHANGED coordVars

\* An export that ignores the missing blob and hands it to saveAs
CanvasToBlobUnchecked ==
  /\ ex.pc = "encoding"
  /\ \E blob \in BOOLEAN :
       ex' = [ex EXCEPT !.pc = "idle",
                        !.failedIn = IF blob THEN @ ELSE "canvasToBlob",
                        !.saved = Append(@, IF ex.kind = "pdf" THEN "chart.pdf"
                                            ELSE "chart.png")]
  /\ UNCHANGED coordVars

\* canvasToBlob and saveAs, lines 130-140, 190-191, 200-201
CanvasToBlob ==
  /\ ex.pc = "encoding"
  /\ \E blob \in BOOLEAN :
       ex' = IF blob
             THEN [ex EXCEPT !.pc = "idle",
                             !.saved = Append(@, IF ex.kind = "pdf" THEN "chart.pdf"
                                                 ELSE "chart.png")]
             ELSE [ex EXCEPT !.pc = "rejected", !.failedIn = "canvasToBlob"]
  /\ UNCHANGED coordVars

----------------------------------------------------------------------------
(* Specifications *)

\* Datasets of at most MaxIndis records
IndiChoices == [id : {"a", "b"}, fams : {<<1>>, <<2>>}, famc : {NoFamc, 1, 2}]
DatasetChoices ==
  UNION {[1..n -> IndiChoices] : n \in 0..MaxIndis}

\* The state after the module is loaded and before the component mounts
Start ==
  /\ variant \in {1, 2}
  /\ wrappers = <<>>
  /\ cur = 0
  /\ props = NoProps
  /\ crashed = FALSE
  /\ heap = heap0
  /\ nreq = 0
  /\ ncharts = 0
  /\ promises = {}
  /\ rendered = <<>>
  /\ dom = InitialDom
  /\ zt = ZoomIdentity
  /\ domZoom = NoZoomBehavior
  /\ transition = NoTransition
  /\ lastCall = [n |-> 0, w |-> 0, props |-> NoProps, args |-> MountArgs,
                 animating |-> FALSE, inflight |-> FALSE, burst |-> TRUE,
                 unfrozen |-> TRUE]
  /\ lastRender = NoRender
  /\ ngest = 0
  /\ zoomFailed = FALSE
  /\ ex = NoExport

\* The render coordinator under the component's requests
Init ==
  /\ heap0 = InitialHeap
  /\ limits = [req |-> MaxReq, gest |-> 0]
  /\ Start

Next ==
  \/ Mount
  \/ Update
  \/ AnimationDone
  \/ TransitionEnd

Spec == Init /\ [][Next]_vars

\* The coordinator together with the user's zoom and scroll gestures
InitView ==
  /\ heap0 = InitialHeap
  /\ limits = [req |-> MaxViewReq, gest |-> MaxGestures]
  /\ Start

NextView ==
  \/ Mount
  \/ Update
  \/ AnimationDone
  \/ TransitionEnd
  \/ ZoomGesture
  \/ ZoomButton
  \/ UserScroll

SpecView == InitView /\ [][NextView]_vars

\* The first render of the component over every dataset of the bound
InitDedup ==
  /\ heap0 \in {[InitialHeap EXCEPT ![1] = ds] : ds \in DatasetChoices}
  /\ limits = [req |-> 1, gest |-> 0]
  /\ Start

NextDedup ==
  \/ Mount
  \/ AnimationDone

SpecDedup == InitDedup /\ [][NextDedup]_vars

\* The export entry points over a mounted chart
InitExport ==
  /\ heap0 = InitialHeap
  /\ limits = [req |-> 1, gest |-> 1]
  /\ Start

NextExport ==
  \/ Mount
  \/ AnimationDone
  \/ ZoomGesture
  \/ ExportStart
  \/ FetchSettles
  \/ BlobSettles
  \/ ReaderSettles
  \/ InlineImagesDone
  \/ SaveSvg
  \/ printChart
  \/ ImageLoads
  \/ CanvasToBlob

SpecExport == InitExport /\ [][NextExport]_vars

\* The coordinator when widget calls can throw and animations can fail
InitFail ==
  /\ heap0 = InitialHeap
  /\ limits = [req |-> MaxFailReq, gest |-> 0]
  /\ Start

NextFail ==
  \/ Mount
  \/ Update
  \/ AnimationDone
  \/ TransitionEnd
  \/ UpdateWidgetThrows
  \/ ReplayWidgetThrows
  \/ AnimationRejects

SpecFail == InitFail /\ [][NextFail]_vars

\* The coordinator when every animationPromise eventually resolves
InitLive ==
  /\ heap0 = InitialHeap
  /\ limits = [req |-> MaxLiveReq, gest |-> 0]
  /\ Start

\* Every animationPromise eventually resolves: weak fairness of
\* AnimationDone, WF_vars(AnimationDone), written out with its enabling
\* condition.  AnimationDone is enabled exactly when a promise is outstanding
\* and every AnimationDone step removes that promise, so it changes vars.
AnimationsResolve ==
  <>[](promises # {}) => []<><<AnimationDone>>_vars

SpecLive == InitLive /\ [][Next]_vars /\ AnimationsResolve

----------------------------------------------------------------------------
(* Claims about the render coordinator *)

\* Every animation has completed
Quiescent == nreq > 0 /\ promises = {}

\* The wrapper a call of the effect ran on, as it was before the call
Prior(w) == IF w <= Len(wrappers) THEN wrappers[w] ELSE NewChartWrapper

\* A step that is a renderChart call made by the component's effect
EffectCall == nreq' = nreq + 1

\* C1: for a sequence of render requests each issued while an animation is
\* still in flight, once all animations have completed only the most recently
\* issued request has been rendered after the first one, and the selection and
\* freeze flag of the last rendered state are those of that request.  Stated
\* for requests that do not carry the freeze flag, which lines 334-336 drop.
C1_OnlyLastRendered ==
  (Quiescent /\ nreq >= 2 /\ lastCall.burst /\ lastCall.unfrozen) =>
    /\ lastRender.req = nreq
    /\ lastRender.selection = props.selection
    /\ lastRender.freezeAnimation = props.freezeAnimation
    /\ \A i \in 1..Len(rendered) : rendered[i] \in {1, nreq}

\* C2: at most one chart render is active: two animations are never in
\* flight at once.
C2_OneActiveRender == Cardinality(promises) <= 1

\* C3: the requests passed to the widget's render appear in arrival order.
C3_ArrivalOrder ==
  \A i, j \in 1..Len(rendered) : i < j => rendered[i] < rendered[j]

C6_SingleCoordinator ==
  /\ Len(wrappers) <= 1
  /\ (lastCall.n >= 2 /\ lastCall.inflight) => lastCall.animating


----------------------------------------------------------------------------
(* Claims about deduplication, zoom bounds, scroll position and export *)

\* The records of arr whose id occurs at no earlier position, in order
RECURSIVE FirstOccurrencesFrom(_, _)
FirstOccurrencesFrom(arr, i) ==
  IF i > Len(arr) THEN <<>>
  ELSE IF \E j \in 1..(i - 1) : arr[j].id = arr[i].id
       THEN FirstOccurrencesFrom(arr, i + 1)
       ELSE <<arr[i]>> \o FirstOccurrencesFrom(arr, i + 1)

\* C4: the dataset handed to the widget holds one record per distinct id, in
\* first-occurrence order, each exactly as the first record with that id was
\* in the caller's dataset.
C4_FirstOccurrenceWins ==
  \A w \in 1..Len(wrappers) :
    wrappers[w].chart.id # 0
      => wrappers[w].chart.json = FirstOccurrencesFrom(heap0[props.data], 1)

\* C7: inlining is best-effort.  It never rejects the export; once the
\* snapshot is serialized every image has been attempted, every image whose
\* fetch and conversion succeeded carries the data URL of its original
\* reference, and every image whose fetch or body read failed (or that had no
\* reference) carries its original reference.
C7_BestEffortInlining ==
  /\ ex.failedIn # "inlineImages"
  /\ \A i \in 1..Len(ex.images) : ex.images[i].st # "rejected"
  /\ (ex.pc \in {"serialized", "encoding"} \/ (ex.pc = "idle" /\ ex.started > 0))
       => /\ Len(ex.images) = Len(ex.live)
          /\ \A i \in 1..Len(ex.images) :
               LET img == ex.images[i]
               IN  /\ img.st \in {"done", "failed", "skipped"}
                   /\ img.st = "done"
                        => img.href = [data |-> TRUE, src |-> ex.live[i].src]
                   /\ img.st \in {"failed", "skipped"} => img.href = ex.live[i]

\* One fetch failed among three images, the other two are inlined and the
\* SVG download was saved
C7_Witness ==
  /\ ex.pc = "idle" /\ ex.kind = "svg" /\ ex.saved = <<"chart.svg">>
  /\ Len(ex.images) = 3
  /\ Cardinality({i \in 1..3 : ex.images[i].st = "failed"}) = 1
  /\ Cardinality({i \in 1..3 : ex.images[i].st = "done"
                               /\ ex.images[i].href.data}) = 2

\* C8: at any moment after a render the snapshot getStrippedSvg would take
\* has the natural size of the most recent layout result and carries neither
\* the outer translate nor the inner scale.
C8_ExportNaturalSize ==
  lastRender.req # 0 =>
    LET svg == getStrippedSvg(dom, zt)
    IN  /\ svg.width = Int2Rat(lastRender.info.size[1])
        /\ svg.height = Int2Rat(lastRender.info.size[2])
        /\ svg.transform = NoAttr
        /\ svg.chartTransform = NoAttr

\* e is the smaller of w/W and h/H
IsMinRatio(e, W, H) ==
  /\ e[1] * W <= e[2] * ClientWidth
  /\ e[1] * H <= e[2] * ClientHeight
  /\ e[1] * W = e[2] * ClientWidth \/ e[1] * H = e[2] * ClientHeight

\* C9: the zoom bounds a render installs for a chart of size (W,H) are
\* min(w/W, h/H) and exactly 2, whatever the zoom scale at the time.
C9_ZoomBounds ==
  /\ \A w \in 1..Len(wrappers) :
       LET zb == wrappers[w].zoomBehavior
       IN  zb.installed =>
             /\ IsMinRatio(zb.extent[1], zb.size[1], zb.size[2])
             /\ zb.extent[2] = <<2, 1>>
  /\ lastRender.req # 0 =>
       /\ domZoom.installed
       /\ domZoom.size = lastRender.info.size
       /\ IsMinRatio(domZoom.extent[1], lastRender.info.size[1],
                     lastRender.info.size[2])
       /\ domZoom.extent[2] = <<2, 1>>

\* Bounds were installed by a render that ran at a scale other than 1
C9_Witness ==
  /\ lastRender.req = 2 /\ lastRender.scale # <<1, 1>>
  /\ wrappers[lastRender.w].zoomBehavior.installed
  /\ wrappers[lastRender.w].zoomBehavior.extent[1] = <<4, 5>>

\* origin * scale - client / 2
CenteredScroll(client, origin, scale) ==
  Rat(2 * origin * scale[1] - client * scale[2], 2 * scale[2])

\* C10: an applied initial render with resetPosition writes the scroll offset
\* (origin.x * scale - w/2, origin.y * scale - h/2) within the call; a call
\* with resetPosition false, from the effect or from the continuation, writes
\* no scroll offset and schedules no scroll tween.
C10_ScrollOnRender ==
  [][/\ (rendered' # rendered /\ lastRender'.initialRender
           /\ lastRender'.resetPosition)
          => /\ dom'.scrollLeft =
                  CenteredScroll(ClientWidth, lastRender'.info.origin[1], zt.k)
             /\ dom'.scrollTop =
                  CenteredScroll(ClientHeight, lastRender'.info.origin[2], zt.k)
     /\ ((EffectCall /\ ~lastCall'.args.resetPosition)
           \/ (rendered' # rendered /\ ~lastRender'.resetPosition))
          => /\ dom'.scrollLeft = dom.scrollLeft
             /\ dom'.scrollTop = dom.scrollTop
             /\ transition' # transition => ~transition'.scroll]_vars

\* An initial render with resetPosition has just run at a scale other than 1
\* and the scroll offset is the centred one
C10_Witness ==
  /\ lastRender.req = nreq /\ nreq = 2 /\ ngest >= 1
  /\ lastRender.initialRender /\ lastRender.resetPosition
  /\ lastRender.scale # <<1, 1>> /\ zt.k = lastRender.scale
  /\ dom.scrollLeft = CenteredScroll(ClientWidth, lastRender.info.origin[1], zt.k)
  /\ dom.scrollTop = CenteredScroll(ClientHeight, lastRender.info.origin[2], zt.k)
  /\ RatLT(Int2Rat(0), dom.scrollLeft) /\ RatLT(Int2Rat(0), dom.scrollTop)

----------------------------------------------------------------------------
(* Claims about reconstruction, failures and the pending slot *)

\* C11: when the chart type of the component's props differs from the
\* previous props, the renderChart call of the effect has initialRender set
\* and is applied at once, also while an animation is in flight: the mount
\* point is cleared, a new handle of the new chart type is built and
\* rendered, and the pending slot is not used.
C11_ChartTypeChangeIsInitial ==
  [][(EffectCall /\ nreq >= 1 /\ props'.chartType # props.chartType)
       => LET w == lastCall'.w
          IN  /\ lastCall'.args.initialRender
              /\ rendered' = Append(rendered, nreq')
              /\ ncharts' = ncharts + 1
              /\ wrappers'[w].chart.id = ncharts'
              /\ wrappers'[w].chart.id # Prior(w).chart.id
              /\ wrappers'[w].chart.chartType = props'.chartType
              /\ dom'.content = ncharts'
              /\ lastRender'.initialRender
              /\ wrappers'[w].rerenderRequired = Prior(w).rerenderRequired
              /\ wrappers'[w].rerenderProps = Prior(w).rerenderProps]_vars

\* The chart type has just changed while the first animation of the same
\* coordinator was in flight, and the new chart was built and rendered.  With
\* one prop changed per update only a chart type change sets both flags.
C11_Witness ==
  /\ variant = 1 /\ lastCall.n = nreq /\ nreq = 2
  /\ lastCall.args.initialRender /\ lastCall.args.resetPosition
  /\ lastCall.animating
  /\ rendered = <<1, 2>> /\ ncharts = 2 /\ wrappers[cur].chart.id = 2
  /\ dom.content = 2

\* C12: when canvas encoding yields no blob during downloadPng or
\* downloadPdf the export ends rejected, saveAs was not called for it (the
\* failing step saves nothing, so fewer files were saved than exports were
\* started), and nothing of the export runs afterwards (no retry).
C12_EncodingFailureRejects ==
  /\ [](ex.failedIn = "canvasToBlob"
          => /\ ex.pc = "rejected"
             /\ ex.kind \in {"png", "pdf"}
             /\ Len(ex.saved) < ex.started)
  /\ [][(ex.failedIn # "canvasToBlob" /\ ex'.failedIn = "canvasToBlob")
          => ex.pc = "encoding" /\ ex'.saved = ex.saved]_vars
  /\ [][ex.pc = "rejected" => ex' = ex]_vars

\* A PDF export whose canvas gave no blob
C12_Witness ==
  /\ ex.failedIn = "canvasToBlob" /\ ex.kind = "pdf" /\ ex.pc = "rejected"
  /\ ex.started = 1 /\ AllSettled(ex.images)

\* C13: a failed render does not leave the coordinator stuck: whenever a
\* request is parked in the pending slot behind the animating flag, a
\* completion signal whose continuation will clear the flag and replay the
\* request is outstanding for that coordinator.
C13_NotStuck ==
  \A w \in 1..Len(wrappers) :
    (wrappers[w].animating /\ wrappers[w].rerenderRequired)
      => \E pr \in promises : pr.w = w

\* C14: a non-initial request that arrives while an animation is in flight
\* is stored in the pending slot of its coordinator together with its
\* resetPosition flag, overwriting what was there, and the call neither
\* invokes the widget nor changes the handle, the zoom handler, the scroll
\* offset or the animating flag.
C14_SlotLastWriteWins ==
  [][(EffectCall /\ ~lastCall'.args.initialRender /\ promises # {})
       => LET w == lastCall'.w
              before == Prior(w)
              after == wrappers'[w]
          IN  /\ after.rerenderRequired
              /\ after.rerenderProps = lastCall'.props
              /\ after.rerenderResetPosition = lastCall'.args.resetPosition
              /\ rendered' = rendered /\ ncharts' = ncharts /\ ~crashed'
              /\ after.chart = before.chart
              /\ after.zoomBehavior = before.zoomBehavior
              /\ after.animating = before.animating
              /\ dom'.scrollLeft = dom.scrollLeft
              /\ dom'.scrollTop = dom.scrollTop]_vars

\* C15: when a completion signal resolves, animating is cleared first; if the
\* pending slot holds a request the slot is cleared and renderChart runs once
\* with that request, initialRender false and the resetPosition flag stored
\* with it (so an unfrozen request is applied, not deferred again); if the
\* slot is empty nothing is rendered.  No request is rendered twice.
C15_ReplayOnce ==
  /\ [](\A i, j \in 1..Len(rendered) : i # j => rendered[i] # rendered[j])
  /\ [][\A pr \in promises \ promises' :
          LET w == pr.w
              W == wrappers[w]
              after == wrappers'[w]
              p == W.rerenderProps
          IN  nreq' = nreq =>
                /\ ~after.rerenderRequired
                /\ IF W.rerenderRequired /\ ~p.freezeAnimation
                   THEN /\ rendered' = Append(rendered, p.req)
                        /\ lastRender'.req = p.req
                        /\ lastRender'.w = w
                        /\ lastRender'.selection = p.selection
                        /\ ~lastRender'.initialRender
                        /\ lastRender'.resetPosition = W.rerenderResetPosition
                        /\ after.animating
                        /\ promises' \ promises
                             = {[id |-> Len(rendered) + 1, w |-> w]}
                   ELSE /\ rendered' = rendered
                        /\ lastRender' = lastRender
                        /\ after = [W EXCEPT !.animating = FALSE,
                                             !.rerenderRequired = FALSE]
                        /\ promises' \subseteq promises
                        /\ dom' = dom /\ transition' = transition]_vars

\* The first animation has completed and the request stored during it, the
\* second of the component, was replayed with the resetPosition flag it
\* arrived with; its own animation is now in flight
C15_Witness ==
  /\ variant = 1 /\ nreq = 2 /\ lastCall.animating
  /\ ~lastCall.args.initialRender /\ lastCall.args.resetPosition
  /\ rendered = <<1, 2>> /\ lastRender.req = 2
  /\ ~lastRender.initialRender /\ lastRender.resetPosition
  /\ promises = {[id |-> 2, w |-> 1]}
  /\ wrappers[1].animating /\ ~wrappers[1].rerenderRequired

\* C16: the animating flag of a coordinator is true exactly when the
\* completion signal of some render it applied is still outstanding.
C16_AnimatingIffInFlight ==
  \A w \in 1..Len(wrappers) :
    wrappers[w].animating <=> \E pr \in promises : pr.w = w

\* A call of the effect that passes the defer and the freeze check of
\* renderChart with initialRender false
AppliedNonInitialCall ==
  /\ EffectCall
  /\ ~lastCall'.args.initialRender
  /\ ~Prior(lastCall'.w).animating
  /\ ~lastCall'.props.freezeAnimation

\* C17: every applied non-initial request does exactly one of two things
\* before the layout call: on a handle that exposes setData it passes the
\* deduplicated dataset to setData and keeps the handle; otherwise it builds
\* a new handle as the initial path does.  Then the layout call runs.
C17_UpdateOrReconstruct ==
  [][/\ AppliedNonInitialCall
          => /\ ~crashed'
             /\ rendered' = Append(rendered, nreq')
     /\ (AppliedNonInitialCall \/ (rendered' # rendered /\ ~lastRender'.initialRender))
          => LET w == IF EffectCall THEN lastCall'.w ELSE lastRender'.w
                 p == IF EffectCall THEN lastCall'.props
                      ELSE wrappers[w].rerenderProps
                 before == Prior(w).chart
                 after == wrappers'[w].chart
             IN  IF before.hasSetData
                 THEN /\ after.id = before.id
                      /\ after.chartType = before.chartType
                      /\ ncharts' = ncharts
                      /\ after.json = uniqueIndis(variant, heap[p.data]).indis
                 ELSE /\ after.id = ncharts + 1
                      /\ ncharts' = ncharts + 1
                      /\ after.chartType = p.chartType
                      /\ after.json = uniqueIndis(variant, heap[p.data]).indis]_vars

\* C19: whenever a non-initial request is applied, the coordinator it runs
\* on already holds a chart handle built by an earlier initial render.
C19_HandleExists ==
  [][AppliedNonInitialCall
       => /\ Prior(lastCall'.w).chart.id # 0
          /\ Prior(lastCall'.w).chart.id <= ncharts]_vars

\* C18: inlineImages never waits forever on one image: while it is running,
\* either some image still has an outstanding step that will settle, or
\* Promise.all can settle.
C18_InliningCompletes ==
  ex.pc = "inlining" =>
    \/ \E i \in 1..Len(ex.images) :
         ex.images[i].st \in {"fetching", "reading", "converting"}
    \/ AllSettled(ex.images)
    \/ AnyRejected(ex.images)

\* No coordinator is animating or holds a pending request, and no
\* completion signal is outstanding
Idle ==
  /\ promises = {}
  /\ \A w \in 1..Len(wrappers) :
       ~wrappers[w].animating /\ ~wrappers[w].rerenderRequired

\* C20: once requests stop arriving and every completion signal resolves,
\* the coordinator reaches animating = false with an empty pending slot and
\* stays there; only a request of the component fills the slot, a replay
\* never does.
C20_Quiescence ==
  /\ <>[]Idle
  /\ [][nreq' = nreq
          => \A w \in 1..Len(wrappers) :
               wrappers'[w].rerenderRequired => wrappers[w].rerenderRequired]_vars

\* All animations are over after a request deferred during the first
\* animation was replayed
C20_Witness ==
  /\ Idle /\ variant = 1 /\ nreq = 2 /\ lastCall.animating
  /\ rendered = <<1, 2>> /\ ~lastRender.initialRender

-----------------------------------------------------------------------------
(* Claims about the caller's data, the zoom bounds, exports and scrolling *)

\* C21: renderChart leaves the caller's dataset unchanged: every dataset
\* object holds the records, each with the id, fams and famc, that the
\* application put there.
C21_DatasetUnchanged ==
  \A d \in DOMAIN heap : heap[d] = heap0[d]

\* C22: the zoom bounds installed by a render form an interval: the minimum
\* scale is at most the maximum scale, on the coordinator and on the
\* viewport element.
C22_ZoomBoundsOrdered ==
  /\ \A w \in 1..Len(wrappers) :
       LET zb == wrappers[w].zoomBehavior
       IN  zb.installed => RatLE(zb.extent[1], zb.extent[2])
  /\ domZoom.installed => RatLE(domZoom.extent[1], domZoom.extent[2])

\* C23: an export works on a clone.  No step of an export, successful or
\* failing, changes the width, height or transform attributes of the live
\* chart SVG, the image references of the live DOM, the zoom transform, or
\* any coordinator's handle, animating flag or pending slot.
C23_ExportsWorkOnClone ==
  [][ex' # ex
       => /\ dom' = dom /\ zt' = zt
          /\ wrappers' = wrappers /\ promises' = promises /\ cur' = cur
          /\ ex.pc # "idle" => ex'.live = ex.live]_vars

\* An SVG download of a chart zoomed away from scale 1 was saved with an
\* inlined image: the snapshot differs from the live node in size, transform
\* and image reference
C23_Witness ==
  /\ ex.pc = "idle" /\ ex.kind = "svg" /\ ex.saved = <<"chart.svg">>
  /\ ex.live = <<Url("u1")>> /\ ex.images[1].href.data
  /\ zt.k # Int2Rat(1)
  /\ dom.transform # NoAttr /\ dom.chartTransform # NoAttr
  /\ ex.svg.width # Number(dom.width)

\* The user scrolled the viewport directly to the offset s
DirectScroll(s) ==
  /\ ngest' = ngest + 1
  /\ dom' = [dom EXCEPT !.scrollLeft = Int2Rat(s[1]), !.scrollTop = Int2Rat(s[2])]

\* (offset + half of the viewport) / k
TranslateTarget(offset, client, k) ==
  RatDiv(RatAdd(Int2Rat(offset), RatHalf(Int2Rat(client))), k)

\* C24: after a direct scroll to (sx, sy) the zoom transform keeps its scale
\* k, is the one that centres the point ((sx + w/2)/k, (sy + h/2)/k), has
\* x = -sx and y = -sy, and zoomed() applied to it writes the scroll offset
\* (sx, sy) back.
C24_ScrollSync ==
  [][\A s \in ScrollChoices :
       DirectScroll(s)
         => /\ zt'.k = zt.k
            /\ zt'.x = RatSub(RatHalf(Int2Rat(ClientWidth)),
                              RatMul(zt.k, TranslateTarget(s[1], ClientWidth, zt.k)))
            /\ zt'.y = RatSub(RatHalf(Int2Rat(ClientHeight)),
                              RatMul(zt.k, TranslateTarget(s[2], ClientHeight, zt.k)))
            /\ zt'.x = Int2Rat(-s[1]) /\ zt'.y = Int2Rat(-s[2])
            /\ zoomed(domZoom.size, zt', dom').scrollLeft = Int2Rat(s[1])
            /\ zoomed(domZoom.size, zt', dom').scrollTop = Int2Rat(s[2])]_vars

\* The viewport was scrolled directly after a gesture had zoomed the chart
\* away from scale 1 and panned it elsewhere
C24_Witness ==
  /\ ngest = 2 /\ zt.k # Int2Rat(1)
  /\ \E s \in ScrollChoices :
       /\ dom.scrollLeft = Int2Rat(s[1]) /\ dom.scrollTop = Int2Rat(s[2])
       /\ zt.x = Int2Rat(-s[1]) /\ zt.y = Int2Rat(-s[2])
  /\ dom.chartTransform = zt.k

\* C25: once the first renderChart call of the mounted component has
\* returned, every press of a zoom button finds a zoom handler on the
\* coordinator it is called on: no press dereferences a missing
\* zoomBehavior.
C25_ZoomHandlerInstalled ==
  ~zoomFailed

====
